---- MODULE Spec2Model ----
(***************************************************************************)
(* Model of the Meshtastic dashboard front end                             *)
(* (static/js/dashboard.js): the traceroute form, its poll loop and the    *)
(* traceroute_result push event; loadAll with the new_message and          *)
(* position_update push events; the link construction of                   *)
(* renderTopologyGraph; the MQTT feed and node cache; the connect and      *)
(* disconnect commands; the statistics overview; the node search; the      *)
(* theme and notification settings; the device selects with the send and   *)
(* traceroute forms.                                                       *)
(*                                                                         *)
(* The server behind /api/... and the socket is not part of the source:    *)
(* it is the environment, and its answers are drawn from small sets.       *)
(***************************************************************************)
EXTENDS Integers, Sequences, FiniteSets, TLC

\* ---------------------------------------------------------------- bounds
MaxInflight == 2        \* poll fetches of one request awaiting their response
MaxExtraTicks == 1      \* interval ticks modelled beyond maxAttempts
MaxClock == 2           \* node observations made by the devices
MaxMsgs == 2            \* text messages received by the server
MaxEvents == 2          \* push events queued on the socket
MaxLoads == 2           \* loadAll calls awaiting their responses
MaxTopoNodes == 2       \* nodes of a topology snapshot
MaxTopoEdges == 2       \* edges of a topology snapshot
MaxPkts == 3            \* broker packets published during a run
MaxFeedLoads == 1       \* loadMqttFeed calls awaiting their response
MaxFeedResp == 2        \* packets of one /api/mqtt/feed response
MaxCmds == 1            \* connect/disconnect commands awaiting their response
MaxToasts == 2          \* toasts on screen
MaxStatusLoads == 1     \* loadMqttStatus calls scheduled or awaiting fetch
MaxStatsNodes == 2      \* nodes of a /api/nodes response
MaxPermRequests == 2    \* permission prompts awaiting the user's answer

\* ------------------------------------------------------ program constants
maxAttempts == 30
FeedMaxRows == 500      \* appendMqttPacket: "Keep max 500 rows"
OnlineWindow == 900     \* renderStatsOverview: (now - n.lastHeard) < 900
StatsNow == 100000      \* renderStatsOverview: Date.now() / 1000 at the call
Null == -999            \* a property that is null or missing

\* ------------------------------------------------------------ small sets
Devices == {"gw1", "gw2"}
DeviceList == <<"gw1", "gw2">>    \* the order /api/devices lists them in
NodeIds == {"!aabbccdd", "!n2"}
TrIds == {1, 2}
TopoIds == {"!aabbccdd", "!n2", "!n3"}
SnrValues == {-5, 5}
TrDestinations == {"!aabbccdd"}
Routes == { <<>>, <<"!n2", "!n3">> }
PollStatuses == {"pending", "complete", "timed-out", "error"}
FeedFilters == {"", "TEXT_MESSAGE_APP", "POSITION_APP"}
\* how a command request ends: HTTP OK with the success body; HTTP OK with a
\* body that reports no success; a non-OK status with an error body; fetch
\* rejects
Outcomes == {"ok", "refused", "http-error", "network-error"}
Portnums == {"TEXT_MESSAGE_APP", "POSITION_APP", "NODEINFO_APP",
             "TELEMETRY_APP", "ROUTING_APP"}
\* texts typed into the node search box
SearchTexts == { << >>, << "A", "L" >>, << "b", "r" >>, << "n", "2" >>,
                 << "b", "e" >>, << "z" >> }

\* an absent localStorage item: getItem returns null
NoItem == "null"
\* the selects filled by populateDeviceSelects
Selects == {"send-device", "tr-device", "config-device-select"}

\* what mqtt_packet events carry for the node cache
NodePorts == {"NODEINFO_APP", "POSITION_APP", "TEXT_MESSAGE_APP"}
PacketSenders == {"", "!aabbccdd", "!n2", "!n3"}

\* texts typed into #send-text
SendTexts == { << >>, << " " >>, << "h", "i" >>, << " ", "h", "i", " " >> }

VARIABLES
    nodesData,      \* let nodesData: sequence of node records
    devicesData,    \* let devicesData: the last /api/devices response
    messagesData,   \* let messagesData: sequence of messages
    nextId,         \* server: next traceroute request id
    trReq,          \* server: device and destination recorded for each id
    trPosted,       \* ids whose POST /api/traceroute response is in flight
    trStatus,       \* text of #tr-status-<id>; "none" when not in the page
    trHops,         \* content of #tr-hops-<id>
    attempts,       \* pollTraceroute(id): let attempts
    intervalOn,     \* pollTraceroute(id): the setInterval timer is armed
    pollsInFlight,  \* pollTraceroute(id): fetches awaiting their response
    srvClock,       \* server: number of node observations so far
    srvNodes,       \* server: the node list of each device
    srvMsgs,        \* server: message history
    events,         \* push events emitted and not yet handled, in order
    loads,          \* loadAll calls awaiting Promise.all
    lostMsgs,       \* ids of messages whose new_message event was lost
    topoPc,         \* loadTopology: "fetched" (data received) or "rendered"
    topoNodes,      \* data.nodes of the /api/topology response
    topoEdges,      \* data.edges of the /api/topology response
    topoLinks,      \* renderTopologyGraph: const links
    pktClock,       \* broker: number of packets published so far
    feedRows,       \* the .mqtt-feed-row children of #mqtt-feed-container
    feedFilter,     \* value of #mqtt-feed-filter
    feedLoads,      \* loadMqttFeed calls awaiting their response
    toasts,         \* children of #toast-container, oldest first
    cmds,           \* command requests awaiting their response
    mqttStatusLoads,\* loadMqttStatus calls scheduled or awaiting fetch
    mqttBadge,      \* text of #mqtt-connection-badge
    srvMqtt,        \* server: the MQTT bridge is a member of the broker
    fmtPkt,         \* formatMqttPayload: the argument pkt
    fmtOut,         \* formatMqttPayload: the text returned; kind "none" before
    statsNodes,     \* loadStats: the /api/nodes response
    statsShown,     \* the four figures of the statistics overview
    searchQuery,    \* value of #node-search, as a sequence of characters
    nodeRows,       \* ids of the rows of #nodes-body, top to bottom
    dataTheme,      \* the data-theme attribute of the document element
    localStorage,   \* localStorage: the items "theme" and "notifications"
    notificationsEnabled, \* let notificationsEnabled
    permission,     \* Notification.permission; "unsupported" without the API
    permRequests,   \* click handlers awaiting Notification.requestPermission
    notices,        \* sounds played and browser notifications raised
    mqttNodesData,  \* let mqttNodesData: the last /api/mqtt/nodes response
    srvConnected,   \* server: the devices whose radio link is up
    selects,        \* options and value of each device select
    sends           \* POST /api/send requests awaiting their response

vars == << nodesData, devicesData, messagesData, nextId, trReq, trPosted,
           trStatus, trHops, attempts, intervalOn, pollsInFlight,
           srvClock, srvNodes, srvMsgs, events, loads, lostMsgs,
           topoPc, topoNodes, topoEdges, topoLinks,
           pktClock, feedRows, feedFilter, feedLoads,
           toasts, cmds, mqttStatusLoads, mqttBadge, srvMqtt,
           fmtPkt, fmtOut, statsNodes, statsShown, searchQuery, nodeRows,
           dataTheme, localStorage, notificationsEnabled, permission,
           permRequests, notices, mqttNodesData, srvConnected, selects,
           sends >>

trVars == << nextId, trReq, trPosted, trStatus, trHops, attempts, intervalOn,
             pollsInFlight >>
dataVars == << nodesData, devicesData, messagesData >>
topoVars == << topoPc, topoNodes, topoEdges, topoLinks >>
feedVars == << pktClock, feedRows, feedFilter, feedLoads >>
\* the parts of the page next to the node list, the messages, the
\* traceroutes and the topology graph
cmdVars == << toasts, cmds, mqttStatusLoads, mqttBadge, srvMqtt >>
fmtVars == << fmtPkt, fmtOut >>
statsVars == << statsNodes, statsShown >>
searchVars == << searchQuery, nodeRows >>
prefsVars == << dataTheme, localStorage, notificationsEnabled, permission,
               permRequests, notices >>
formVars == << srvConnected, selects, sends >>
newVars == << prefsVars, mqttNodesData, formVars >>
otherVars == << feedVars, cmdVars, fmtVars, statsVars, searchVars, newVars >>
srvVars == << srvClock, srvNodes, srvMsgs, events, loads, lostMsgs, topoVars,
             otherVars >>
\* everything but otherVars
baseVars == << dataVars, trVars, srvClock, srvNodes, srvMsgs, events, loads,
              lostMsgs, topoVars >>

\* ------------------------------------------------------------------ helpers
\* nodesData.find(n => n.id === id): index of the first match, 0 when none
FindNode(nodes, id) ==
    IF \E i \in 1..Len(nodes) : nodes[i].id = id
    THEN CHOOSE i \in 1..Len(nodes) :
            /\ nodes[i].id = id
            /\ \A j \in 1..(i - 1) : nodes[j].id # id
    ELSE 0

resolveNodeName(id) ==
    IF id = "" THEN "?"
    ELSE LET i == FindNode(nodesData, id)
         IN  IF i # 0 THEN nodesData[i].longName ELSE id

\* ------------------------------------------------------- traceroute display
HopsWaiting == [kind |-> "waiting", names |-> <<>>]
HopsNoResponse == [kind |-> "noresponse", names |-> <<>>]
HopsNone == [kind |-> "none", names |-> <<>>]

\* TracePath with the hops pushed in reverse order
TracePathReversed(tr) ==
    << resolveNodeName(IF tr.device # "" THEN tr.device ELSE "You") >>
    \o [i \in 1..Len(tr.route) |->
            resolveNodeName(tr.route[Len(tr.route) + 1 - i])]
    \o << resolveNodeName(tr.destination) >>

\* the fullPath array of updateTracerouteResult, arrows left out
TracePath(tr) ==
    << resolveNodeName(IF tr.device # "" THEN tr.device ELSE "You") >>
    \o [i \in 1..Len(tr.route) |-> resolveNodeName(tr.route[i])]
    \o << resolveNodeName(tr.destination) >>

HopsContent(tr) ==
    IF Len(tr.route) > 0
    THEN [kind |-> "path", names |-> TracePath(tr)]
    ELSE [kind |-> "direct", names |-> << resolveNodeName(tr.destination) >>]

\* the record the server returns for a request id
ServerRecord(id, status, route) ==
    [id |-> id, device |-> trReq[id].device,
     destination |-> trReq[id].destination,
     status |-> status, route |-> route]

updateTracerouteResult(id, tr) ==
    /\ trStatus' = IF trStatus[id] # "none"
                   THEN [trStatus EXCEPT ![id] = "Complete"] ELSE trStatus
    /\ trHops' = IF trHops[id].kind # "none"
                 THEN [trHops EXCEPT ![id] = HopsContent(tr)] ELSE trHops

\* the else-if branch of the poll callback: badge Timeout
ShowTimeout(id) ==
    /\ trStatus' = IF trStatus[id] # "none"
                   THEN [trStatus EXCEPT ![id] = "Timeout"] ELSE trStatus
    /\ trHops' = IF trHops[id].kind # "none"
                 THEN [trHops EXCEPT ![id] = HopsNoResponse] ELSE trHops

\* --------------------------------------------------------------- actions
\* submit handler of #traceroute-form up to the await of postJSON; the
\* server allocates the request id
SubmitTraceroute(device, destination) ==
    /\ device # "" /\ destination # ""
    /\ nextId \in TrIds
    /\ trReq' = [trReq EXCEPT ![nextId] =
                    [device |-> device, destination |-> destination]]
    /\ trPosted' = trPosted \cup {nextId}
    /\ nextId' = nextId + 1
    /\ UNCHANGED << trStatus, trHops, attempts, intervalOn, pollsInFlight,
                    dataVars, srvVars >>

\* the submit handler after the await: addTracerouteResult, pollTraceroute
TracerouteStarted(id) ==
    /\ id \in trPosted
    /\ trPosted' = trPosted \ {id}
    /\ trStatus' = [trStatus EXCEPT ![id] = "Pending"]
    /\ trHops' = [trHops EXCEPT ![id] = HopsWaiting]
    /\ attempts' = [attempts EXCEPT ![id] = 0]
    /\ intervalOn' = [intervalOn EXCEPT ![id] = TRUE]
    /\ UNCHANGED << nextId, trReq, pollsInFlight, dataVars, srvVars >>

\* res.error, or postJSON rejected: only a toast
TracerouteRejected(id) ==
    /\ id \in trPosted
    /\ trPosted' = trPosted \ {id}
    /\ UNCHANGED << nextId, trReq, trStatus, trHops, attempts, intervalOn,
                    pollsInFlight, dataVars, srvVars >>

\* PollTick with attempts declared outside pollTraceroute, one counter
\* shared by all requests
PollTickSharedCounter(id) ==
    /\ intervalOn[id]
    /\ attempts[id] < maxAttempts + MaxExtraTicks
    /\ pollsInFlight[id] < MaxInflight
    /\ attempts' = [j \in TrIds |-> attempts[id] + 1]
    /\ pollsInFlight' = [pollsInFlight EXCEPT ![id] = @ + 1]
    /\ UNCHANGED << nextId, trReq, trPosted, trStatus, trHops, intervalOn,
                    dataVars, srvVars >>

\* one firing of the interval callback up to the await of fetchJSON
PollTick(id) ==
    /\ intervalOn[id]
    /\ attempts[id] < maxAttempts + MaxExtraTicks
    /\ pollsInFlight[id] < MaxInflight
    /\ attempts' = [attempts EXCEPT ![id] = @ + 1]
    /\ pollsInFlight' = [pollsInFlight EXCEPT ![id] = @ + 1]
    /\ UNCHANGED << nextId, trReq, trPosted, trStatus, trHops, intervalOn,
                    dataVars, srvVars >>

\* the interval callback after the await, fetchJSON resolved with res
PollResponse(id, status, route) ==
    /\ pollsInFlight[id] > 0
    /\ pollsInFlight' = [pollsInFlight EXCEPT ![id] = @ - 1]
    /\ IF status = "complete"
       THEN /\ intervalOn' = [intervalOn EXCEPT ![id] = FALSE]
            /\ updateTracerouteResult(id, ServerRecord(id, status, route))
       ELSE IF status = "error" \/ attempts[id] >= maxAttempts
       THEN /\ intervalOn' = [intervalOn EXCEPT ![id] = FALSE]
            /\ ShowTimeout(id)
       ELSE UNCHANGED << intervalOn, trStatus, trHops >>
    /\ UNCHANGED << nextId, trReq, trPosted, attempts, dataVars, srvVars >>

\* the interval callback after the await, fetchJSON threw (network error or
\* non-OK status): catch, clearInterval
PollFailed(id) ==
    /\ pollsInFlight[id] > 0
    /\ pollsInFlight' = [pollsInFlight EXCEPT ![id] = @ - 1]
    /\ intervalOn' = [intervalOn EXCEPT ![id] = FALSE]
    /\ UNCHANGED << nextId, trReq, trPosted, trStatus, trHops, attempts,
                    dataVars, srvVars >>

\* socket.on("traceroute_result")
OnTracerouteResult(id, route) ==
    /\ id < nextId
    /\ updateTracerouteResult(id, ServerRecord(id, "complete", route))
    /\ UNCHANGED << nextId, trReq, trPosted, attempts, intervalOn,
                    pollsInFlight, dataVars, srvVars >>

\* ------------------------------------------------- server (environment)
LongNameOf(id) == IF id = "!aabbccdd" THEN "Alpha" ELSE "Bravo"
ShortNameOf(id) == IF id = "!aabbccdd" THEN "ALP" ELSE "BRV"
\* "" when the node has reported no hardware model
HwModelOf(id) == IF id = "!aabbccdd" THEN "TBEAM" ELSE ""

NoMessage == [id |-> 0, from |-> "", sent |-> FALSE]
NoPosition == [latitude |-> 0, longitude |-> 0]

\* A device hears node n: the k-th observation made by the server carries
\* lastHeard = k and the position (k, k), so a smaller latitude is the
\* position of an older observation.  The device's node record is replaced
\* and a position_update event is emitted.
UpsertNode(list, rec) ==
    IF FindNode(list, rec.id) = 0 THEN Append(list, rec)
    ELSE [list EXCEPT ![FindNode(list, rec.id)] = rec]

ObserveNode(d, n) ==
    /\ srvClock < MaxClock
    /\ Len(events) < MaxEvents
    /\ srvClock' = srvClock + 1
    /\ srvNodes' = [srvNodes EXCEPT ![d] = UpsertNode(@,
            [id |-> n, longName |-> LongNameOf(n),
             shortName |-> ShortNameOf(n), hwModel |-> HwModelOf(n),
             lastHeard |-> srvClock + 1,
             latitude |-> srvClock + 1, longitude |-> srvClock + 1,
             seenBy |-> ""])]
    /\ events' = Append(events,
            [type |-> "position_update", from |-> n, msg |-> NoMessage,
             position |-> [latitude |-> srvClock + 1,
                           longitude |-> srvClock + 1]])
    /\ UNCHANGED << srvMsgs, loads, lostMsgs, dataVars, trVars, topoVars, otherVars >>

\* The server receives a text message: it is added to the history and a
\* new_message event is emitted.
ReceiveMessage ==
    /\ Len(srvMsgs) < MaxMsgs
    /\ Len(events) < MaxEvents
    /\ LET m == [id |-> Len(srvMsgs) + 1, from |-> "!aabbccdd", sent |-> FALSE]
       IN  /\ srvMsgs' = Append(srvMsgs, m)
           /\ events' = Append(events,
                [type |-> "new_message", from |-> "", msg |-> m,
                 position |-> NoPosition])
    /\ UNCHANGED << srvClock, srvNodes, loads, lostMsgs, dataVars, trVars, topoVars, otherVars >>

\* The socket was disconnected when the event was emitted: the event is
\* missed (no replay).
DropEvent ==
    /\ events # <<>>
    /\ events' = Tail(events)
    /\ lostMsgs' = IF Head(events).type = "new_message"
                   THEN lostMsgs \cup {Head(events).msg.id} ELSE lostMsgs
    /\ UNCHANGED << srvClock, srvNodes, srvMsgs, loads, dataVars, trVars, topoVars, otherVars >>

\* GET /api/devices is answered for the i-th loadAll in flight
DevicesSnapshot ==
    [k \in 1..Len(DeviceList) |->
        [name |-> DeviceList[k], nodes |-> srvNodes[DeviceList[k]],
         connected |-> DeviceList[k] \in srvConnected]]

ServeDevices(i) ==
    /\ i \in 1..Len(loads)
    /\ ~loads[i].devServed
    /\ loads' = [loads EXCEPT ![i].devServed = TRUE,
                              ![i].devices = DevicesSnapshot]
    /\ UNCHANGED << srvClock, srvNodes, srvMsgs, events, lostMsgs, dataVars,
                    trVars, topoVars, otherVars >>

\* GET /api/messages is answered for the i-th loadAll in flight
ServeMessages(i) ==
    /\ i \in 1..Len(loads)
    /\ ~loads[i].msgServed
    /\ loads' = [loads EXCEPT ![i].msgServed = TRUE, ![i].messages = srvMsgs]
    /\ UNCHANGED << srvClock, srvNodes, srvMsgs, events, lostMsgs, dataVars,
                    trVars, topoVars, otherVars >>

\* ------------------------------------------------------------- node table
\* the characters of the strings that node records hold
Chars(str) ==
    CASE str = "!aabbccdd" -> << "!", "a", "a", "b", "b", "c", "c", "d", "d" >>
      [] str = "!n2" -> << "!", "n", "2" >>
      [] str = "Alpha" -> << "A", "l", "p", "h", "a" >>
      [] str = "Bravo" -> << "B", "r", "a", "v", "o" >>
      [] str = "ALP" -> << "A", "L", "P" >>
      [] str = "BRV" -> << "B", "R", "V" >>
      [] str = "TBEAM" -> << "T", "B", "E", "A", "M" >>
      [] str = "" -> << >>

LowerChar(c) ==
    CASE c = "A" -> "a" [] c = "B" -> "b" [] c = "E" -> "e" [] c = "L" -> "l"
      [] c = "M" -> "m" [] c = "P" -> "p" [] c = "R" -> "r" [] c = "T" -> "t"
      [] c = "V" -> "v" [] OTHER -> c

toLowerCase(chars) == [k \in 1..Len(chars) |-> LowerChar(chars[k])]

\* hay.includes(needle)
includes(hay, needle) ==
    \E k \in 0..(Len(hay) - Len(needle)) :
        SubSeq(hay, k + 1, k + Len(needle)) = needle

\* the predicate of nodesData.filter in the input handler of #node-search
NodeMatches(n, q) ==
    \/ includes(toLowerCase(Chars(n.longName)), q)
    \/ includes(toLowerCase(Chars(n.shortName)), q)
    \/ includes(toLowerCase(Chars(n.id)), q)
    \/ includes(toLowerCase(Chars(n.hwModel)), q)

\* [...nodes].sort((a, b) => (b.lastHeard || 0) - (a.lastHeard || 0)): a
\* stable sort, most recently heard first
RECURSIVE SortNodes(_, _)
SortNodes(nodes, acc) ==
    IF nodes = <<>> THEN acc
    ELSE LET n == Head(nodes)
             before == SelectSeq(acc, LAMBDA m : m.lastHeard >= n.lastHeard)
             after == SelectSeq(acc, LAMBDA m : m.lastHeard < n.lastHeard)
         IN  SortNodes(Tail(nodes), before \o << n >> \o after)

\* renderNodes(nodes): the rows of #nodes-body
renderNodes(nodes) ==
    LET sorted == SortNodes(nodes, <<>>)
    IN  [k \in 1..Len(sorted) |-> sorted[k].id]

\* input event of #node-search: the text typed is now the value of the box
TypeSearch(text) ==
    /\ text # searchQuery
    /\ searchQuery' = text
    /\ nodeRows' = renderNodes(SelectSeq(nodesData,
                        LAMBDA n : NodeMatches(n, toLowerCase(text))))
    /\ UNCHANGED << baseVars, feedVars, cmdVars, fmtVars, statsVars,
                    newVars >>

\* ------------------------------------------------------------------ loadAll
RemoveAt(seq, i) ==
    [k \in 1..(Len(seq) - 1) |-> IF k < i THEN seq[k] ELSE seq[k + 1]]

\* the nodes of all devices in response order, each with n.seenBy = d.name
RECURSIVE FlattenNodes(_)
FlattenNodes(devices) ==
    IF devices = <<>> THEN <<>>
    ELSE [k \in 1..Len(Head(devices).nodes) |->
              [Head(devices).nodes[k] EXCEPT !.seenBy = Head(devices).name]]
         \o FlattenNodes(Tail(devices))

\* the loop of loadAll over devices and d.nodes with the Set seen
RECURSIVE CollectFrom(_, _, _)
CollectFrom(flat, seen, acc) ==
    IF flat = <<>> THEN acc
    ELSE IF Head(flat).id \in seen
         THEN CollectFrom(Tail(flat), seen, acc)
         ELSE CollectFrom(Tail(flat), seen \cup {Head(flat).id},
                          Append(acc, Head(flat)))

\* CollectNodes without the seen check
CollectNodesNoSeen(devices) == FlattenNodes(devices)

CollectNodes(devices) == CollectFrom(FlattenNodes(devices), {}, <<>>)

\* populateDeviceSelects without the filter d => d.connected
populateDeviceSelectsAll(sels, devices) ==
    LET names == [k \in 1..Len(devices) |-> devices[k].name]
        connected == SelectSeq(devices, LAMBDA d : d.connected)
    IN  [x \in Selects |->
            [options |-> names,
             value |-> IF Len(connected) = 1 THEN connected[1].name
                       ELSE IF \E k \in 1..Len(names) :
                                  names[k] = sels[x].value
                       THEN sels[x].value ELSE ""]]

\* populateDeviceSelects(devices): each select gets the placeholder and one
\* option per connected device, keeps its value when that is still an
\* option, and takes the device when exactly one is connected
populateDeviceSelects(sels, devices) ==
    LET connected == SelectSeq(devices, LAMBDA d : d.connected)
        names == [k \in 1..Len(connected) |-> connected[k].name]
    IN  [x \in Selects |->
            [options |-> names,
             value |-> IF Len(connected) = 1 THEN connected[1].name
                       ELSE IF \E k \in 1..Len(names) :
                                  names[k] = sels[x].value
                       THEN sels[x].value ELSE ""]]

\* loadAll up to the await of Promise.all: both fetches are issued
LoadAllStart ==
    /\ Len(loads) < MaxLoads
    /\ loads' = Append(loads, [devServed |-> FALSE, devices |-> <<>>,
                               msgServed |-> FALSE, messages |-> <<>>])
    /\ UNCHANGED << srvClock, srvNodes, srvMsgs, events, lostMsgs, dataVars,
                    trVars, topoVars, otherVars >>

\* LoadAllDone without the assignment messagesData = messages
LoadAllDoneKeepMessages(i) ==
    /\ i \in 1..Len(loads)
    /\ loads[i].devServed /\ loads[i].msgServed
    /\ devicesData' = loads[i].devices
    /\ messagesData' = messagesData
    /\ nodesData' = CollectNodes(loads[i].devices)
    /\ nodeRows' = renderNodes(CollectNodes(loads[i].devices))
    /\ selects' = populateDeviceSelects(selects, loads[i].devices)
    /\ loads' = RemoveAt(loads, i)
    /\ UNCHANGED << srvClock, srvNodes, srvMsgs, events, lostMsgs, trVars,
                    topoVars, feedVars, cmdVars, fmtVars, statsVars,
                    searchQuery,
                    prefsVars, mqttNodesData, srvConnected, sends >>

\* loadAll after the await, both fetches resolved
LoadAllDone(i) ==
    /\ i \in 1..Len(loads)
    /\ loads[i].devServed /\ loads[i].msgServed
    /\ devicesData' = loads[i].devices
    /\ messagesData' = loads[i].messages
    /\ nodesData' = CollectNodes(loads[i].devices)
    /\ nodeRows' = renderNodes(CollectNodes(loads[i].devices))
    /\ selects' = populateDeviceSelects(selects, loads[i].devices)
    /\ loads' = RemoveAt(loads, i)
    /\ UNCHANGED << srvClock, srvNodes, srvMsgs, events, lostMsgs, trVars,
                    topoVars, feedVars, cmdVars, fmtVars, statsVars,
                    searchQuery,
                    prefsVars, mqttNodesData, srvConnected, sends >>

\* toasts
Toast(text, type) == [text |-> text, type |-> type]

\* showToast(text, type) once for each toast of the list
showToasts(list) == toasts' = toasts \o list

\* LoadAllFailed with devicesData assigned as soon as /api/devices answered
LoadAllFailedPartial(i) ==
    /\ i \in 1..Len(loads)
    /\ ~(loads[i].devServed /\ loads[i].msgServed)
    /\ Len(toasts) < MaxToasts
    /\ loads' = RemoveAt(loads, i)
    /\ devicesData' = IF loads[i].devServed THEN loads[i].devices
                                            ELSE devicesData
    /\ showToasts(<< Toast("Failed to load data", "error") >>)
    /\ UNCHANGED << srvClock, srvNodes, srvMsgs, events, lostMsgs, nodesData,
                    messagesData, trVars, topoVars, feedVars, cmds,
                    mqttStatusLoads, mqttBadge, srvMqtt, fmtVars, statsVars,
                    searchVars,
                    newVars >>

\* loadAll after the await, a fetch not yet answered rejects or is not OK:
\* Promise.all rejects before any assignment, catch,
\* showToast("Failed to load data: " + e.message, "error")
LoadAllFailed(i) ==
    /\ i \in 1..Len(loads)
    /\ ~(loads[i].devServed /\ loads[i].msgServed)
    /\ Len(toasts) < MaxToasts
    /\ loads' = RemoveAt(loads, i)
    /\ showToasts(<< Toast("Failed to load data", "error") >>)
    /\ UNCHANGED << srvClock, srvNodes, srvMsgs, events, lostMsgs, dataVars,
                    trVars, topoVars, feedVars, cmds, mqttStatusLoads,
                    mqttBadge, srvMqtt, fmtVars, statsVars, searchVars,
                    newVars >>

\* ------------------------------------------------------------ push events
appendMessage(msg) == messagesData' = Append(messagesData, msg)

\* notifyMessage(msg) without the test of notificationsEnabled
notifyMessageAlways(msg) ==
    /\ notices' = notices \cup { << "sound", msg.id >> }
                     \cup (IF permission = "granted"
                           THEN { << "notification", msg.id >> } ELSE {})
    /\ showToasts(<< Toast(msg.from, "message") >>)

\* notifyMessage(msg): the sound, the browser notification when permission
\* is granted, the toast
notifyMessage(msg) ==
    IF ~notificationsEnabled THEN UNCHANGED << notices, toasts >>
    ELSE /\ notices' = notices \cup { << "sound", msg.id >> }
                          \cup (IF permission = "granted"
                                THEN { << "notification", msg.id >> }
                                ELSE {})
         /\ showToasts(<< Toast(msg.from, "message") >>)

\* socket.on("new_message")
OnNewMessage ==
    /\ events # <<>>
    /\ Head(events).type = "new_message"
    /\ Len(toasts) < MaxToasts
    /\ LET msg == Head(events).msg
       IN  /\ IF ~msg.sent /\ msg.from # "local"
              THEN notifyMessage(msg)
              ELSE UNCHANGED << notices, toasts >>
           /\ appendMessage(msg)
    /\ events' = Tail(events)
    /\ UNCHANGED << nodesData, devicesData, srvClock, srvNodes, srvMsgs,
                    loads, lostMsgs, trVars, topoVars, feedVars, cmds,
                    mqttStatusLoads, mqttBadge, srvMqtt, fmtVars, statsVars,
                    searchVars, dataTheme, localStorage,
                    notificationsEnabled, permission, permRequests,
                    mqttNodesData, formVars >>

\* socket.on("position_update")
OnPositionUpdate ==
    /\ events # <<>>
    /\ Head(events).type = "position_update"
    /\ LET data == Head(events)
           i == FindNode(nodesData, data.from)
       IN  nodesData' = IF i # 0
                        THEN [nodesData EXCEPT
                                ![i].latitude = data.position.latitude,
                                ![i].longitude = data.position.longitude]
                        ELSE nodesData
    /\ events' = Tail(events)
    /\ UNCHANGED << devicesData, messagesData, srvClock, srvNodes, srvMsgs,
                    loads, lostMsgs, trVars, topoVars, otherVars >>

\* ------------------------------------------------------- topology graph
SeqsUpTo(S, n) == UNION { [1..k -> S] : k \in 0..n }

\* nodeMap[id] after nodes.forEach((n, i) => { n.index = i; nodeMap[n.id] = n })
\* as the position of that node in the list (1-based), 0 when id is no key
NodeMapIndex(nodes, id) ==
    LET at == { i \in 1..Len(nodes) : nodes[i].id = id }
    IN  IF at = {} THEN 0 ELSE CHOOSE i \in at : \A j \in at : j <= i

\* BuildLinks testing only the source endpoint
RECURSIVE BuildLinksSourceOnly(_, _)
BuildLinksSourceOnly(nodes, edges) ==
    IF edges = <<>> THEN <<>>
    ELSE LET e == Head(edges)
             source == NodeMapIndex(nodes, e.from)
             target == NodeMapIndex(nodes, e.to)
         IN  (IF source # 0
              THEN << [source |-> source, target |-> target,
                       snr |-> e.snr, rssi |-> e.rssi] >>
              ELSE <<>>)
             \o BuildLinksSourceOnly(nodes, Tail(edges))

\* edges.forEach(e => { if (source && target) links.push(...) })
RECURSIVE BuildLinks(_, _)
BuildLinks(nodes, edges) ==
    IF edges = <<>> THEN <<>>
    ELSE LET e == Head(edges)
             source == NodeMapIndex(nodes, e.from)
             target == NodeMapIndex(nodes, e.to)
         IN  (IF source # 0 /\ target # 0
              THEN << [source |-> source, target |-> target,
                       snr |-> e.snr, rssi |-> e.rssi] >>
              ELSE <<>>)
             \o BuildLinks(nodes, Tail(edges))

\* the node click handler: conns = links.filter(l => l.source.index ===
\* d.index || l.target.index === d.index), conns.length
ConnectionCount(links, index) ==
    Cardinality({ k \in 1..Len(links) :
                    links[k].source = index \/ links[k].target = index })

\* renderTopologyGraph(container, data): the links it builds
renderTopologyGraph ==
    /\ topoPc = "fetched"
    /\ topoLinks' = IF Len(topoNodes) = 0 THEN <<>>
                    ELSE BuildLinks(topoNodes, topoEdges)
    /\ topoPc' = "rendered"
    /\ UNCHANGED << topoNodes, topoEdges, dataVars, trVars, srvClock,
                    srvNodes, srvMsgs, events, loads, lostMsgs, otherVars >>

\* ------------------------------------------------------------ MQTT live feed
\* The broker's traffic: packets are numbered in the order they are
\* published, text and position packets alternate.
PortnumOf(seq) == IF seq % 2 = 1 THEN "TEXT_MESSAGE_APP" ELSE "POSITION_APP"

\* The payload of a packet as far as the node cache reads it; a property
\* the payload lacks reads as "" or Null. A null payload and an empty one
\* both update nothing and are the same record here.
NoNodePayload ==
    [longName |-> "", shortName |-> "", hwModelName |-> "",
     latitude |-> Null, longitude |-> Null]

\* the packets of the feed carry no payload for the node cache
MqttPacket(seq) ==
    [seq |-> seq, portnum |-> PortnumOf(seq), from |-> "!aabbccdd",
     payload |-> NoNodePayload]

\* the row built for a packet; at is the time it was put into the feed,
\* counted in packets published
FeedRow(pkt, now) == [seq |-> pkt.seq, portnum |-> pkt.portnum, at |-> now]

\* appendMqttPacket evicting the row it has just added
appendMqttPacketEvictLast(rows, pkt, filter, now) ==
    IF filter # "" /\ pkt.portnum # filter THEN rows
    ELSE LET added == Append(rows, FeedRow(pkt, now))
         IN  IF Len(added) > FeedMaxRows
             THEN SubSeq(added, 1, Len(added) - 1) ELSE added

\* appendMqttPacket(pkt) as a function of the rows of the container
appendMqttPacket(rows, pkt, filter, now) ==
    IF filter # "" /\ pkt.portnum # filter THEN rows
    ELSE LET added == Append(rows, FeedRow(pkt, now))
         IN  IF Len(added) > FeedMaxRows THEN Tail(added) ELSE added

\* feed.forEach(p => appendMqttPacket(p))
RECURSIVE AppendFeed(_, _, _, _)
AppendFeed(rows, feed, filter, now) ==
    IF feed = <<>> THEN rows
    ELSE AppendFeed(appendMqttPacket(rows, Head(feed), filter, now),
                    Tail(feed), filter, now)

\* the n latest packets among 1..hi that match the filter, latest first
RECURSIVE LatestPackets(_, _, _)
LatestPackets(hi, n, filter) ==
    IF hi = 0 \/ n = 0 THEN <<>>
    ELSE IF filter = "" \/ PortnumOf(hi) = filter
         THEN << MqttPacket(hi) >> \o LatestPackets(hi - 1, n - 1, filter)
         ELSE LatestPackets(hi - 1, n, filter)

Reverse(seq) == [k \in 1..Len(seq) |-> seq[Len(seq) + 1 - k]]

\* The answers GET /api/mqtt/feed?limit=200[&portnum=f] can give: up to
\* MaxFeedResp of the latest packets of the broker, those of portnum f when
\* a filter is asked for, taken now or one packet ago, latest first or
\* oldest first.
FeedAnswers(filter) ==
    UNION { { LatestPackets(hi, n, filter),
              Reverse(LatestPackets(hi, n, filter)) } :
            hi \in { h \in {pktClock - 1, pktClock} : h >= 0 },
            n \in 0..MaxFeedResp }

\* a packet may still be published: MaxPkts packets on a fresh page, or
\* MaxPkts more on a page that started with FeedMaxRows - 1 rows
PacketsLeft ==
    \/ pktClock < MaxPkts
    \/ pktClock >= FeedMaxRows - 1 /\ pktClock < FeedMaxRows - 1 + MaxPkts

\* mqtt_packet handler, "Update MQTT node in cache": the entry found for
\* pkt.from gets the truthy names of a NODEINFO_APP payload, or latitude and
\* longitude of a POSITION_APP payload whose latitude is truthy
updateMqttNodes(nodes, pkt) ==
    LET i == FindNode(nodes, pkt.from)
        p == pkt.payload
    IN  IF pkt.from = "" \/ i = 0 THEN nodes
        ELSE IF pkt.portnum = "NODEINFO_APP"
        THEN [nodes EXCEPT
                ![i].longName = IF p.longName # "" THEN p.longName ELSE @,
                ![i].shortName = IF p.shortName # "" THEN p.shortName ELSE @,
                ![i].hwModel = IF p.hwModelName # "" THEN p.hwModelName
                                                     ELSE @]
        ELSE IF /\ pkt.portnum = "POSITION_APP"
                /\ p.latitude # Null /\ p.latitude # 0
        THEN [nodes EXCEPT ![i].latitude = p.latitude,
                           ![i].longitude = p.longitude]
        ELSE nodes

\* socket.on("mqtt_packet") for the packet pkt
mqttPacketHandler(pkt) ==
    /\ pktClock' = pktClock + 1
    /\ feedRows' = appendMqttPacket(feedRows, pkt, feedFilter, pktClock + 1)
    /\ mqttNodesData' = updateMqttNodes(mqttNodesData, pkt)
    /\ UNCHANGED << feedFilter, feedLoads, baseVars, cmdVars, fmtVars,
                    statsVars, searchVars, prefsVars, formVars >>

\* socket.on("mqtt_packet"): the next packet of the broker is delivered
OnMqttPacket ==
    /\ PacketsLeft
    /\ mqttPacketHandler(MqttPacket(pktClock + 1))

\* socket.on("mqtt_packet"): a packet of the given port, sender and payload
\* is delivered
OnNodePacket(portnum, from, payload) ==
    /\ PacketsLeft
    /\ mqttPacketHandler([seq |-> pktClock + 1, portnum |-> portnum,
                          from |-> from, payload |-> payload])

\* loadMqttNodes after the awaits
LoadMqttNodesDone(list) ==
    /\ mqttNodesData' = list
    /\ UNCHANGED << baseVars, feedVars, cmdVars, fmtVars, statsVars,
                    searchVars, prefsVars, formVars >>

\* change of #mqtt-feed-filter: loadMqttFeed up to the await of fetch
ChangeFeedFilter(f) ==
    /\ f # feedFilter
    /\ Len(feedLoads) < MaxFeedLoads
    /\ feedFilter' = f
    /\ feedLoads' = Append(feedLoads, [filter |-> f])
    /\ UNCHANGED << pktClock, feedRows, baseVars, cmdVars, fmtVars,
                    statsVars, searchVars,
                    newVars >>

\* loadMqttFeed after the awaits: the container is reset to the header
\* and the packets of the response are appended
LoadMqttFeedDone(i, feed) ==
    /\ i \in 1..Len(feedLoads)
    /\ feed \in FeedAnswers(feedLoads[i].filter)
    /\ feedRows' = AppendFeed(<<>>, feed, feedFilter, pktClock)
    /\ feedLoads' = RemoveAt(feedLoads, i)
    /\ UNCHANGED << pktClock, feedFilter, baseVars, cmdVars, fmtVars,
                    statsVars, searchVars,
                    newVars >>

\* loadMqttFeed, fetch or res.json() threw: catch, console.error
LoadMqttFeedFailed(i) ==
    /\ i \in 1..Len(feedLoads)
    /\ feedLoads' = RemoveAt(feedLoads, i)
    /\ UNCHANGED << pktClock, feedRows, feedFilter, baseVars, cmdVars, fmtVars,
                    statsVars, searchVars,
                    newVars >>

\* click on #btn-mqtt-clear-feed
ClearFeed ==
    /\ feedRows # <<>>
    /\ feedRows' = <<>>
    /\ UNCHANGED << pktClock, feedFilter, feedLoads, baseVars, cmdVars, fmtVars,
                    statsVars, searchVars,
                    newVars >>

\* ------------------------------------------------- connect / disconnect
\* setTimeout(() => { el.remove(); }, 4000)
ToastExpires ==
    /\ toasts # <<>>
    /\ toasts' = Tail(toasts)
    /\ UNCHANGED << cmds, mqttStatusLoads, mqttBadge, srvMqtt, baseVars,
                    feedVars, fmtVars,
                    statsVars, searchVars,
                    newVars >>

\* click on #btn-mqtt-connect or #btn-mqtt-disconnect up to the await
ClickMqtt(cmd) ==
    /\ Len(cmds) < MaxCmds
    /\ cmds' = Append(cmds, [cmd |-> cmd, device |-> ""])
    /\ UNCHANGED << toasts, mqttStatusLoads, mqttBadge, srvMqtt, baseVars,
                    feedVars, fmtVars,
                    statsVars, searchVars,
                    newVars >>

\* the MQTT button handlers after the await: fetch resolves whatever the
\* HTTP status is, and neither res.ok nor the body is looked at
MqttResponse(i, outcome) ==
    /\ i \in 1..Len(cmds)
    /\ cmds[i].cmd \in {"mqtt-connect", "mqtt-disconnect"}
    /\ Len(toasts) < MaxToasts
    /\ cmds' = RemoveAt(cmds, i)
    /\ srvMqtt' = IF outcome = "ok" THEN cmds[i].cmd = "mqtt-connect"
                  ELSE srvMqtt
    /\ IF outcome = "network-error"
       THEN /\ showToasts(<< Toast(IF cmds[i].cmd = "mqtt-connect"
                                   THEN "MQTT connect error"
                                   ELSE "MQTT disconnect error", "error") >>)
            /\ UNCHANGED mqttStatusLoads
       ELSE /\ showToasts(<< Toast(IF cmds[i].cmd = "mqtt-connect"
                                   THEN "MQTT connecting"
                                   ELSE "MQTT disconnected", "info") >>)
            /\ mqttStatusLoads' = IF mqttStatusLoads < MaxStatusLoads
                                  THEN mqttStatusLoads + 1 ELSE mqttStatusLoads
    /\ UNCHANGED << mqttBadge, baseVars, feedVars, fmtVars,
                    statsVars, searchVars,
                    newVars >>

\* setInterval(loadMqttStatus, 10000)
LoadMqttStatusStart ==
    /\ mqttStatusLoads < MaxStatusLoads
    /\ mqttStatusLoads' = mqttStatusLoads + 1
    /\ UNCHANGED << toasts, cmds, mqttBadge, srvMqtt, baseVars, feedVars, fmtVars,
                    statsVars, searchVars,
                    newVars >>

\* loadMqttStatus after the awaits: the badge shows stats.connected
LoadMqttStatusDone ==
    /\ mqttStatusLoads > 0
    /\ mqttStatusLoads' = mqttStatusLoads - 1
    /\ mqttBadge' = IF srvMqtt THEN "Connected" ELSE "Disconnected"
    /\ UNCHANGED << toasts, cmds, srvMqtt, baseVars, feedVars, fmtVars,
                    statsVars, searchVars,
                    newVars >>

\* loadMqttStatus, fetch or res.json() threw: catch, console.error
LoadMqttStatusFailed ==
    /\ mqttStatusLoads > 0
    /\ mqttStatusLoads' = mqttStatusLoads - 1
    /\ UNCHANGED << toasts, cmds, mqttBadge, srvMqtt, baseVars, feedVars, fmtVars,
                    statsVars, searchVars,
                    newVars >>

\* disconnectDevice(name) up to the await of fetch
disconnectDevice(name) ==
    /\ Len(cmds) < MaxCmds
    /\ cmds' = Append(cmds, [cmd |-> "disconnect", device |-> name])
    /\ UNCHANGED << toasts, mqttStatusLoads, mqttBadge, srvMqtt, baseVars,
                    feedVars, fmtVars,
                    statsVars, searchVars,
                    newVars >>

\* reconnectDevice(name) up to the await of fetch
reconnectDevice(name) ==
    /\ Len(cmds) < MaxCmds
    /\ Len(toasts) < MaxToasts
    /\ showToasts(<< Toast("Reconnecting", "info") >>)
    /\ cmds' = Append(cmds, [cmd |-> "reconnect", device |-> name])
    /\ UNCHANGED << mqttStatusLoads, mqttBadge, srvMqtt, baseVars, feedVars, fmtVars,
                    statsVars, searchVars,
                    newVars >>

\* The toasts of disconnectDevice / reconnectDevice after the awaits.  On
\* success the success toast is followed by the call loadDevices(): no
\* function of that name is defined, the call throws a ReferenceError
\* inside the try and the catch shows the error toast.
DeviceToasts(cmd, outcome) ==
    LET word == IF cmd = "disconnect" THEN "Disconnect" ELSE "Reconnect"
        succeeded == IF cmd = "disconnect" THEN outcome \in {"ok", "refused"}
                     ELSE outcome = "ok"
    IN  IF outcome = "network-error" THEN << Toast(word \o " error", "error") >>
        ELSE IF succeeded
        THEN << Toast(IF cmd = "disconnect" THEN "Disconnected from"
                      ELSE "Reconnected to",
                      IF cmd = "disconnect" THEN "info" ELSE "success"),
                Toast(word \o " error", "error") >>
        ELSE << Toast(word \o " failed", "error") >>

\* disconnectDevice / reconnectDevice after the awaits
DeviceResponse(i, outcome) ==
    /\ i \in 1..Len(cmds)
    /\ cmds[i].cmd \in {"disconnect", "reconnect"}
    /\ Len(toasts) + Len(DeviceToasts(cmds[i].cmd, outcome)) <= MaxToasts
    /\ cmds' = RemoveAt(cmds, i)
    /\ showToasts(DeviceToasts(cmds[i].cmd, outcome))
    /\ srvConnected' = IF outcome # "ok" THEN srvConnected
                       ELSE IF cmds[i].cmd = "disconnect"
                       THEN srvConnected \ {cmds[i].device}
                       ELSE srvConnected \cup {cmds[i].device}
    /\ UNCHANGED << mqttStatusLoads, mqttBadge, srvMqtt, baseVars, feedVars, fmtVars,
                    statsVars, searchVars,
                    prefsVars, mqttNodesData, selects, sends >>

\* ------------------------------------------------------- formatMqttPayload
\* A payload object: keys are the properties it has; a property it lacks
\* reads as "" or 0, which are falsy like undefined.
NoPayload ==
    [keys |-> {}, text |-> "", latitude |-> 0, longName |-> "",
     batteryLevel |-> 0, temperature |-> 0]

Payloads ==
    { NoPayload,
      [NoPayload EXCEPT !.keys = {"text"}, !.text = "hi"],
      [NoPayload EXCEPT !.keys = {"text"}],
      [NoPayload EXCEPT !.keys = {"latitude", "longitude"}, !.latitude = 59],
      [NoPayload EXCEPT !.keys = {"longName"}, !.longName = "Alpha"],
      [NoPayload EXCEPT !.keys = {"deviceMetrics"}, !.batteryLevel = 80],
      [NoPayload EXCEPT !.keys = {"environmentMetrics"}, !.temperature = 21],
      [NoPayload EXCEPT !.keys = {"raw"}] }

FmtPackets ==
    [portnum : Portnums, decoded : BOOLEAN, encrypted : BOOLEAN,
     payload : Payloads]

FmtText(kind, text) == [kind |-> kind, text |-> text]

\* formatMqttPayload(pkt): which of its return statements is taken, with the
\* text or name it quotes
formatMqttPayload(pkt) ==
    LET p == pkt.payload
    IN  IF pkt.portnum = "TEXT_MESSAGE_APP" /\ p.text # ""
        THEN FmtText("text", p.text)
        ELSE IF pkt.portnum = "POSITION_APP" /\ p.latitude # 0
        THEN FmtText("position", "")
        ELSE IF pkt.portnum = "NODEINFO_APP" /\ p.longName # ""
        THEN FmtText("nodeinfo", p.longName)
        ELSE IF pkt.portnum = "TELEMETRY_APP"
        THEN IF p.batteryLevel # 0 THEN FmtText("battery", "")
             ELSE IF p.temperature # 0 THEN FmtText("temperature", "")
             ELSE FmtText("json", "")
        ELSE IF ~pkt.decoded
        THEN IF pkt.encrypted THEN FmtText("encrypted", "")
             ELSE FmtText("dash", "")
        ELSE IF p.keys # {} THEN FmtText("json", "")
        ELSE FmtText("dash", "")

\* appendMqttPacket: const payload = formatMqttPayload(pkt)
FormatPayload ==
    /\ fmtOut.kind = "none"
    /\ fmtOut' = formatMqttPayload(fmtPkt)
    /\ UNCHANGED << fmtPkt, baseVars, feedVars, cmdVars, statsVars, searchVars,
                    newVars >>

\* ------------------------------------------------------ statistics overview
\* nodes as /api/nodes can list them: never heard (0) or heard just outside
\* the window, just inside it, or with a clock slightly ahead; no position,
\* a latitude only, or a position on the equator; no SNR or one of two
StatsNodeSet ==
    { [lastHeard |-> h, latitude |-> pos[1], longitude |-> pos[2], snr |-> q] :
        h \in {0, StatsNow - OnlineWindow, StatsNow - OnlineWindow + 1,
               StatsNow + 60},
        pos \in { << Null, Null >>, << 59, Null >>, << 0, 18 >> },
        q \in {Null, -5, 8} }

\* snrs.reduce((a, b) => a + b, 0) over the nodes that have an SNR
RECURSIVE SumSnr(_)
SumSnr(nodes) ==
    IF nodes = <<>> THEN 0
    ELSE (IF Head(nodes).snr # Null THEN Head(nodes).snr ELSE 0)
         + SumSnr(Tail(nodes))

\* (a / b).toFixed(1) in tenths: the nearest tenth, a half rounded away
\* from zero
ToFixed1(a, b) ==
    IF a >= 0 THEN (20 * a + b) \div (2 * b)
    ELSE -((20 * (-a) + b) \div (2 * b))

\* renderStatsOverview with the window test written <= 900
renderStatsOverviewInclusive(nodes) ==
    LET ix == 1..Len(nodes)
        online == { i \in ix : /\ nodes[i].lastHeard \notin {0, Null}
                               /\ StatsNow - nodes[i].lastHeard <= OnlineWindow }
        withGps == { i \in ix : nodes[i].latitude # Null
                                /\ nodes[i].longitude # Null }
        snrs == { i \in ix : nodes[i].snr # Null }
    IN  [total |-> Len(nodes), online |-> Cardinality(online),
         withGps |-> Cardinality(withGps),
         avgSnr |-> IF snrs # {}
                    THEN [shown |-> TRUE,
                          tenths |-> ToFixed1(SumSnr(nodes), Cardinality(snrs))]
                    ELSE [shown |-> FALSE, tenths |-> 0]]

\* renderStatsOverview(nodes): the figures written to stat-total-nodes,
\* stat-online-nodes, stat-with-gps and stat-avg-snr
renderStatsOverview(nodes) ==
    LET ix == 1..Len(nodes)
        online == { i \in ix : /\ nodes[i].lastHeard \notin {0, Null}
                               /\ StatsNow - nodes[i].lastHeard < OnlineWindow }
        withGps == { i \in ix : nodes[i].latitude # Null
                                /\ nodes[i].longitude # Null }
        snrs == { i \in ix : nodes[i].snr # Null }
    IN  [total |-> Len(nodes), online |-> Cardinality(online),
         withGps |-> Cardinality(withGps),
         avgSnr |-> IF snrs # {}
                    THEN [shown |-> TRUE,
                          tenths |-> ToFixed1(SumSnr(nodes), Cardinality(snrs))]
                    ELSE [shown |-> FALSE, tenths |-> 0]]

NoStats ==
    [total |-> Null, online |-> Null, withGps |-> Null,
     avgSnr |-> [shown |-> FALSE, tenths |-> 0]]

\* loadStats after the await: renderStatsOverview(nodes)
LoadStatsDone ==
    /\ statsShown = NoStats
    /\ statsShown' = renderStatsOverview(statsNodes)
    /\ UNCHANGED << statsNodes, baseVars, feedVars, cmdVars, fmtVars,
                    searchVars,
                    newVars >>

\* ------------------------------------------------ theme and notifications
\* localStorage.getItem("theme") || "dark"
ThemeOf(storage) == IF storage.theme = NoItem THEN "dark" ELSE storage.theme

\* the click handler of #btn-theme storing the theme it replaces
ClickThemeStoreCurrent ==
    /\ dataTheme' = IF dataTheme = "dark" THEN "light" ELSE "dark"
    /\ localStorage' = [localStorage EXCEPT !.theme = dataTheme]
    /\ UNCHANGED << baseVars, feedVars, cmdVars, fmtVars, statsVars,
                    searchVars, notificationsEnabled, permission,
                    permRequests, notices, mqttNodesData, formVars >>

\* the click handler of #btn-theme
ClickTheme ==
    /\ LET next == IF dataTheme = "dark" THEN "light" ELSE "dark"
       IN  /\ dataTheme' = next
           /\ localStorage' = [localStorage EXCEPT !.theme = next]
    /\ UNCHANGED << baseVars, feedVars, cmdVars, fmtVars, statsVars,
                    searchVars, notificationsEnabled, permission,
                    permRequests, notices, mqttNodesData, formVars >>

\* the enabling branch of the #btn-notif handler from notificationsEnabled
\* = true on
EnableNotifications ==
    /\ Len(toasts) < MaxToasts
    /\ notificationsEnabled' = TRUE
    /\ localStorage' = [localStorage EXCEPT !.notifications = "true"]
    /\ showToasts(<< Toast("Notifications enabled", "success") >>)

\* the click handler of #btn-notif up to its end or to the await of
\* Notification.requestPermission()
ClickNotif ==
    /\ IF ~notificationsEnabled
       THEN IF permission \notin {"unsupported", "granted"}
            THEN /\ permRequests < MaxPermRequests
                 /\ permRequests' = permRequests + 1
                 /\ UNCHANGED << notificationsEnabled, localStorage, toasts >>
            ELSE /\ EnableNotifications
                 /\ UNCHANGED permRequests
       ELSE /\ Len(toasts) < MaxToasts
            /\ notificationsEnabled' = FALSE
            /\ localStorage' = [localStorage EXCEPT !.notifications = "false"]
            /\ showToasts(<< Toast("Notifications disabled", "info") >>)
            /\ UNCHANGED permRequests
    /\ UNCHANGED << baseVars, feedVars, cmds, mqttStatusLoads, mqttBadge,
                    srvMqtt, fmtVars, statsVars, searchVars, dataTheme,
                    permission, notices, mqttNodesData, formVars >>

\* the user answers a permission prompt: the handler resumes after the await
PermissionAnswered(answer) ==
    /\ permRequests > 0
    /\ permission \in {"default", answer}
    /\ permRequests' = permRequests - 1
    /\ permission' = answer
    /\ EnableNotifications
    /\ UNCHANGED << baseVars, feedVars, cmds, mqttStatusLoads, mqttBadge,
                    srvMqtt, fmtVars, statsVars, searchVars, dataTheme,
                    notices, mqttNodesData, formVars >>

\* The server logs a text message, received from the mesh or sent from the
\* dashboard, and emits new_message.
MessageLogged(from, sent) ==
    /\ Len(srvMsgs) < MaxMsgs
    /\ Len(events) < MaxEvents
    /\ LET m == [id |-> Len(srvMsgs) + 1, from |-> from, sent |-> sent]
       IN  /\ srvMsgs' = Append(srvMsgs, m)
           /\ events' = Append(events,
                [type |-> "new_message", from |-> "", msg |-> m,
                 position |-> NoPosition])
    /\ UNCHANGED << srvClock, srvNodes, loads, lostMsgs, dataVars, trVars,
                    topoVars, otherVars >>

\* the page is loaded again: initTheme and initNotifications restore from
\* localStorage, everything else of the page starts empty, the events in
\* flight are missed
Reload ==
    /\ dataTheme' = ThemeOf(localStorage)
    /\ notificationsEnabled' = (localStorage.notifications = "true")
    /\ permRequests' = 0
    /\ toasts' = <<>>
    /\ nodesData' = <<>>
    /\ devicesData' = <<>>
    /\ messagesData' = <<>>
    /\ events' = <<>>
    /\ lostMsgs' = lostMsgs \cup { events[k].msg.id : k \in
                        { j \in 1..Len(events) :
                            events[j].type = "new_message" } }
    /\ UNCHANGED << srvClock, srvNodes, srvMsgs, loads, trVars, topoVars,
                    feedVars, cmds, mqttStatusLoads, mqttBadge, srvMqtt,
                    fmtVars, statsVars, searchVars, localStorage, permission,
                    notices, mqttNodesData, formVars >>

\* ------------------------------------------------------- send / traceroute
\* String.prototype.trim on a sequence of characters
trim(text) ==
    LET inked == { k \in 1..Len(text) : text[k] # " " }
    IN  IF inked = {} THEN << >>
        ELSE SubSeq(text, CHOOSE k \in inked : \A j \in inked : k <= j,
                          CHOOSE k \in inked : \A j \in inked : j <= k)

\* A device's radio link goes down or comes back.
LinkChanges(d) ==
    /\ srvConnected' = IF d \in srvConnected THEN srvConnected \ {d}
                                              ELSE srvConnected \cup {d}
    /\ UNCHANGED << baseVars, feedVars, cmdVars, fmtVars, statsVars,
                    searchVars, prefsVars, mqttNodesData, selects, sends >>

\* the user picks an option of a device select
SelectDevice(x, value) ==
    /\ value # selects[x].value
    /\ \/ value = ""
       \/ \E k \in 1..Len(selects[x].options) :
             selects[x].options[k] = value
    /\ selects' = [selects EXCEPT ![x].value = value]
    /\ UNCHANGED << baseVars, feedVars, cmdVars, fmtVars, statsVars,
                    searchVars, prefsVars, mqttNodesData, srvConnected,
                    sends >>

\* submit handler of #send-form up to its return or to the await of postJSON
SubmitSend(typed) ==
    /\ LET device == selects["send-device"].value
           text == trim(typed)
       IN  IF device = ""
           THEN /\ Len(toasts) < MaxToasts
                /\ showToasts(<< Toast("Select a device first", "error") >>)
                /\ UNCHANGED sends
           ELSE IF text = << >>
           THEN UNCHANGED << toasts, sends >>
           ELSE /\ Len(sends) < MaxCmds
                /\ sends' = Append(sends, [device |-> device, text |-> text])
                /\ UNCHANGED toasts
    /\ UNCHANGED << baseVars, feedVars, cmds, mqttStatusLoads, mqttBadge,
                    srvMqtt, fmtVars, statsVars, searchVars, prefsVars,
                    mqttNodesData, srvConnected, selects >>

\* the submit handler of #send-form after the await: res.error or a
\* rejected request shows the toast Send failed
SendResponse(i, outcome) ==
    /\ i \in 1..Len(sends)
    /\ sends' = RemoveAt(sends, i)
    /\ IF outcome = "ok" THEN UNCHANGED toasts
       ELSE /\ Len(toasts) < MaxToasts
            /\ showToasts(<< Toast("Send failed", "error") >>)
    /\ UNCHANGED << baseVars, feedVars, cmds, mqttStatusLoads, mqttBadge,
                    srvMqtt, fmtVars, statsVars, searchVars, prefsVars,
                    mqttNodesData, srvConnected, selects >>

\* submit handler of #traceroute-form up to its return or to the await of
\* postJSON, reading the device from #tr-device; the server allocates the
\* request id
SubmitTracerouteForm(destination) ==
    /\ Len(toasts) < MaxToasts
    /\ LET device == selects["tr-device"].value
       IN  IF device = ""
           THEN /\ showToasts(<< Toast("Select a device", "error") >>)
                /\ UNCHANGED << nextId, trReq, trPosted >>
           ELSE IF destination = ""
           THEN /\ showToasts(<< Toast("Select a destination", "error") >>)
                /\ UNCHANGED << nextId, trReq, trPosted >>
           ELSE /\ nextId \in TrIds
                /\ showToasts(<< Toast("Sending traceroute", "info") >>)
                /\ trReq' = [trReq EXCEPT ![nextId] =
                                [device |-> device,
                                 destination |-> destination]]
                /\ trPosted' = trPosted \cup {nextId}
                /\ nextId' = nextId + 1
    /\ UNCHANGED << trStatus, trHops, attempts, intervalOn, pollsInFlight,
                    dataVars, srvClock, srvNodes, srvMsgs, events, loads,
                    lostMsgs, topoVars, feedVars, cmds, mqttStatusLoads,
                    mqttBadge, srvMqtt, fmtVars, statsVars, searchVars,
                    newVars >>

\* ------------------------------------------------------------ specification
KnownNodes ==
    << [id |-> "!aabbccdd", longName |-> "Alpha", shortName |-> "ALP",
        hwModel |-> "TBEAM", lastHeard |-> 1,
        latitude |-> 1, longitude |-> 1, seenBy |-> "gw1"],
       [id |-> "!n2", longName |-> "Bravo", shortName |-> "BRV",
        hwModel |-> "", lastHeard |-> 1,
        latitude |-> 1, longitude |-> 1, seenBy |-> "gw1"] >>

\* no traceroute requested yet
TrIdle ==
    /\ nextId = 1
    /\ trReq = [id \in TrIds |-> [device |-> "", destination |-> ""]]
    /\ trPosted = {}
    /\ trStatus = [id \in TrIds |-> "none"]
    /\ trHops = [id \in TrIds |-> HopsNone]
    /\ attempts = [id \in TrIds |-> 0]
    /\ intervalOn = [id \in TrIds |-> FALSE]
    /\ pollsInFlight = [id \in TrIds |-> 0]

\* the server has seen nothing, no request or event is under way
SrvIdle ==
    /\ srvClock = 0
    /\ srvNodes = [d \in Devices |-> <<>>]
    /\ srvMsgs = <<>>
    /\ events = <<>>
    /\ loads = <<>>
    /\ lostMsgs = {}

\* the topology tab was never opened
TopoIdle ==
    /\ topoPc = "rendered"
    /\ topoNodes = <<>>
    /\ topoEdges = <<>>
    /\ topoLinks = <<>>

\* the MQTT tab shows the empty feed, no filter chosen
FeedIdle ==
    /\ pktClock = 0
    /\ feedRows = <<>>
    /\ feedFilter = ""
    /\ feedLoads = <<>>

\* no command under way, no toast shown, the MQTT badge as in the page
CmdIdle ==
    /\ toasts = <<>>
    /\ cmds = <<>>
    /\ mqttStatusLoads = 0
    /\ mqttBadge = "Disconnected"
    /\ srvMqtt = FALSE

\* no packet is being formatted
FmtIdle ==
    /\ fmtPkt = [portnum |-> "ROUTING_APP", decoded |-> FALSE,
                 encrypted |-> FALSE, payload |-> NoPayload]
    /\ fmtOut = FmtText("dash", "")

\* the statistics tab was never opened
StatsIdle ==
    /\ statsNodes = <<>>
    /\ statsShown = NoStats

\* the search box is empty, the table shows the nodes loaded
SearchIdle ==
    /\ searchQuery = << >>
    /\ nodeRows = renderNodes(nodesData)

\* a first visit: nothing stored, permission never asked; no MQTT node
\* loaded; every device connected, the selects not yet populated
NewIdle ==
    /\ dataTheme = "dark"
    /\ localStorage = [theme |-> NoItem, notifications |-> NoItem]
    /\ notificationsEnabled = FALSE
    /\ permission = "default"
    /\ permRequests = 0
    /\ notices = {}
    /\ mqttNodesData = <<>>
    /\ srvConnected = Devices
    /\ selects = [s \in Selects |-> [options |-> <<>>, value |-> ""]]
    /\ sends = <<>>

OtherIdle ==
    FeedIdle /\ CmdIdle /\ FmtIdle /\ StatsIdle /\ SearchIdle /\ NewIdle

\* the traceroute tab, the node list already loaded
InitTr ==
    /\ nodesData = KnownNodes
    /\ devicesData = <<>>
    /\ messagesData = <<>>
    /\ TrIdle /\ SrvIdle /\ TopoIdle /\ OtherIdle

\* what happens to the requests once submitted
TrSteps ==
    \/ \E id \in TrIds : TracerouteStarted(id)
    \/ \E id \in TrIds : TracerouteRejected(id)
    \/ \E id \in TrIds : PollTick(id)
    \/ \E id \in TrIds, s \in PollStatuses, r \in Routes : PollResponse(id, s, r)
    \/ \E id \in TrIds : PollFailed(id)
    \/ \E id \in TrIds, r \in Routes : OnTracerouteResult(id, r)

\* one traceroute is requested from the form
NextTr ==
    \/ \E d \in Devices, n \in TrDestinations :
          nextId = 1 /\ SubmitTraceroute(d, n)
    \/ TrSteps

SpecTr == InitTr /\ [][NextTr]_vars

\* two traceroutes are requested, each from another device; the routes
\* reported all go through the same two relays
NextTrTwo ==
    \/ \E d \in Devices, n \in TrDestinations :
          /\ \A id \in TrIds : id < nextId => trReq[id].device # d
          /\ SubmitTraceroute(d, n)
    \/ \E id \in TrIds : TracerouteStarted(id)
    \/ \E id \in TrIds : TracerouteRejected(id)
    \/ \E id \in TrIds : PollTick(id)
    \/ \E id \in TrIds, s \in PollStatuses :
          PollResponse(id, s, << "!n2", "!n3" >>)
    \/ \E id \in TrIds : PollFailed(id)
    \/ \E id \in TrIds : OnTracerouteResult(id, << "!n2", "!n3" >>)

SpecTrTwo == InitTr /\ [][NextTrTwo]_vars

\* the page right after DOMContentLoaded, nothing loaded yet
InitLoad ==
    /\ nodesData = <<>>
    /\ devicesData = <<>>
    /\ messagesData = <<>>
    /\ TrIdle /\ SrvIdle /\ TopoIdle /\ OtherIdle

\* loadAll calls whose two fetches are answered
LoadAllSteps ==
    \/ LoadAllStart
    \/ \E i \in 1..MaxLoads : ServeDevices(i)
    \/ \E i \in 1..MaxLoads : ServeMessages(i)
    \/ \E i \in 1..MaxLoads : LoadAllDone(i)

\* loadAll refreshes against node observations and position_update events
NextNodes ==
    \/ \E d \in Devices, n \in NodeIds : ObserveNode(d, n)
    \/ OnPositionUpdate
    \/ DropEvent
    \/ LoadAllSteps

SpecNodes == InitLoad /\ [][NextNodes]_vars

\* overlapping loadAll calls (refresh button, 30 s timer) that succeed or
\* fail, against a server that answers /api/devices in the order asked
NextLoad ==
    \/ \E d \in Devices, n \in NodeIds : ObserveNode(d, n)
    \/ LoadAllStart
    \/ \E i \in 1..Len(loads) :
          /\ \A j \in 1..(i - 1) : loads[j].devServed
          /\ ServeDevices(i)
    \/ \E i \in 1..MaxLoads : ServeMessages(i)
    \/ \E i \in 1..MaxLoads : LoadAllDone(i)
    \/ \E i \in 1..MaxLoads : LoadAllFailed(i)
    \/ ToastExpires

SpecLoad == InitLoad /\ [][NextLoad]_vars

\* loadAll refreshes against received messages and new_message events
NextMsgs ==
    \/ ReceiveMessage
    \/ OnNewMessage
    \/ DropEvent
    \/ LoadAllSteps

SpecMsgs == InitLoad /\ [][NextMsgs]_vars

\* loadTopology received a snapshot {nodes, edges} and renders it
InitTopo ==
    /\ nodesData = <<>>
    /\ devicesData = <<>>
    /\ messagesData = <<>>
    /\ TrIdle /\ SrvIdle /\ OtherIdle
    /\ topoPc = "fetched"
    /\ topoNodes \in SeqsUpTo([id : TopoIds], MaxTopoNodes)
    /\ topoEdges \in SeqsUpTo([from : TopoIds, to : TopoIds, snr : SnrValues,
                               rssi : {-90}], MaxTopoEdges)
    /\ topoLinks = <<>>

NextTopo == renderTopologyGraph

SpecTopo == InitTopo /\ [][NextTopo]_vars

\* the MQTT tab: a fresh page, or a page whose feed has received the first
\* FeedMaxRows - 1 packets of the broker with no filter chosen
InitFeed ==
    /\ nodesData = <<>>
    /\ devicesData = <<>>
    /\ messagesData = <<>>
    /\ TrIdle /\ SrvIdle /\ TopoIdle
    /\ pktClock \in {0, FeedMaxRows - 1}
    /\ feedRows = [k \in 1..pktClock |-> FeedRow(MqttPacket(k), k)]
    /\ feedFilter = ""
    /\ feedLoads = <<>>
    /\ CmdIdle /\ FmtIdle /\ StatsIdle /\ SearchIdle /\ NewIdle

NextFeed ==
    \/ OnMqttPacket
    \/ \E f \in FeedFilters : ChangeFeedFilter(f)
    \/ \E i \in 1..Len(feedLoads) :
          \E feed \in FeedAnswers(feedLoads[i].filter) : LoadMqttFeedDone(i, feed)
    \/ \E i \in 1..Len(feedLoads) : LoadMqttFeedFailed(i)
    \/ ClearFeed

SpecFeed == InitFeed /\ [][NextFeed]_vars

\* the connect / disconnect buttons of the MQTT tab and of the device cards
InitCmd == InitLoad

NextCmd ==
    \/ \E c \in {"mqtt-connect", "mqtt-disconnect"} : ClickMqtt(c)
    \/ \E i \in 1..Len(cmds), o \in Outcomes : MqttResponse(i, o)
    \/ LoadMqttStatusStart
    \/ LoadMqttStatusDone
    \/ LoadMqttStatusFailed
    \/ \E d \in Devices : disconnectDevice(d)
    \/ \E d \in Devices : reconnectDevice(d)
    \/ \E i \in 1..Len(cmds), o \in Outcomes : DeviceResponse(i, o)
    \/ ToastExpires

SpecCmd == InitCmd /\ [][NextCmd]_vars

\* appendMqttPacket is about to format the payload of a packet
InitFmt ==
    /\ nodesData = <<>>
    /\ devicesData = <<>>
    /\ messagesData = <<>>
    /\ TrIdle /\ SrvIdle /\ TopoIdle /\ FeedIdle /\ CmdIdle /\ StatsIdle
    /\ SearchIdle /\ NewIdle
    /\ fmtPkt \in FmtPackets
    /\ fmtOut = FmtText("none", "")

NextFmt == FormatPayload

SpecFmt == InitFmt /\ [][NextFmt]_vars

\* the statistics tab is opened and /api/nodes has answered
InitStats ==
    /\ nodesData = <<>>
    /\ devicesData = <<>>
    /\ messagesData = <<>>
    /\ TrIdle /\ SrvIdle /\ TopoIdle /\ FeedIdle /\ CmdIdle /\ FmtIdle
    /\ SearchIdle /\ NewIdle
    /\ statsNodes \in SeqsUpTo(StatsNodeSet, MaxStatsNodes)
    /\ statsShown = NoStats

NextStats == LoadStatsDone

SpecStats == InitStats /\ [][NextStats]_vars

\* the node table with its search box, against loadAll refreshes
NextSearch ==
    \/ \E text \in SearchTexts : TypeSearch(text)
    \/ NextNodes

SpecSearch == InitLoad /\ [][NextSearch]_vars

\* refreshes keep being issued by setInterval(loadAll, REFRESH_INTERVAL) and
\* succeed again and again
SpecMsgsFair ==
    /\ InitLoad /\ [][NextMsgs]_vars
    /\ WF_vars(LoadAllStart)
    /\ SF_vars(\E i \in 1..MaxLoads : ServeMessages(i) /\ loads[i].devServed)
    /\ SF_vars(\E i \in 1..MaxLoads : ServeDevices(i))
    /\ WF_vars(\E i \in 1..MaxLoads : LoadAllDone(i))

\* a first visit in a browser that may lack the Notification API or have
\* its permission already decided: the theme and notification buttons,
\* messages pushed by the server, reloads
InitPrefs ==
    /\ nodesData = <<>>
    /\ devicesData = <<>>
    /\ messagesData = <<>>
    /\ TrIdle /\ SrvIdle /\ TopoIdle
    /\ FeedIdle /\ CmdIdle /\ FmtIdle /\ StatsIdle /\ SearchIdle
    /\ dataTheme = "dark"
    /\ localStorage = [theme |-> NoItem, notifications |-> NoItem]
    /\ notificationsEnabled = FALSE
    /\ permission \in {"unsupported", "default", "granted", "denied"}
    /\ permRequests = 0
    /\ notices = {}
    /\ mqttNodesData = <<>>
    /\ srvConnected = Devices
    /\ selects = [x \in Selects |-> [options |-> <<>>, value |-> ""]]
    /\ sends = <<>>

NextPrefs ==
    \/ ClickTheme
    \/ ClickNotif
    \/ \E answer \in {"granted", "denied"} : PermissionAnswered(answer)
    \/ \E from \in {"!aabbccdd", "local"}, sent \in BOOLEAN :
          MessageLogged(from, sent)
    \/ OnNewMessage
    \/ ToastExpires
    \/ Reload

SpecPrefs == InitPrefs /\ [][NextPrefs]_vars

\* the MQTT tab: the node cache loaded from /api/mqtt/nodes against the
\* packets pushed by the server
NodePayloads ==
    { NoNodePayload,
      [NoNodePayload EXCEPT !.longName = "Relay"],
      [NoNodePayload EXCEPT !.shortName = "RLY", !.hwModelName = "TBEAM"],
      [NoNodePayload EXCEPT !.latitude = 7, !.longitude = 8],
      [NoNodePayload EXCEPT !.latitude = 7],
      [NoNodePayload EXCEPT !.latitude = 0, !.longitude = 8] }

\* the entry /api/mqtt/nodes lists for a node heard with a position
MqttNode(id) ==
    [id |-> id, longName |-> LongNameOf(id), shortName |-> ShortNameOf(id),
     hwModel |-> HwModelOf(id), latitude |-> 1, longitude |-> 2]

\* the answers of /api/mqtt/nodes
MqttNodeLists ==
    { <<>>, << MqttNode("!aabbccdd") >>,
      << MqttNode("!aabbccdd"), MqttNode("!n2") >> }

InitPush ==
    /\ nodesData = <<>>
    /\ devicesData = <<>>
    /\ messagesData = <<>>
    /\ TrIdle /\ SrvIdle /\ TopoIdle /\ OtherIdle

NextPush ==
    \/ \E list \in MqttNodeLists : LoadMqttNodesDone(list)
    \/ \E portnum \in NodePorts, from \in PacketSenders,
          payload \in NodePayloads : OnNodePacket(portnum, from, payload)

SpecPush == InitPush /\ [][NextPush]_vars

\* the send and traceroute forms with the device selects refreshed by
\* loadAll while radio links go down and come back: one refresh, one
\* message and one traceroute at a time, the user submitting a form once
\* the last toast is gone
NextForms ==
    \/ \E d \in Devices : LinkChanges(d)
    \/ loads = << >> /\ LoadAllStart
    \/ \E i \in 1..MaxLoads : ServeDevices(i)
    \/ \E i \in 1..MaxLoads : ServeMessages(i)
    \/ \E i \in 1..MaxLoads : LoadAllDone(i)
    \/ \E x \in {"send-device", "tr-device"}, d \in Devices \cup {""} :
          SelectDevice(x, d)
    \/ \E typed \in SendTexts :
          toasts = << >> /\ sends = << >> /\ SubmitSend(typed)
    \/ \E i \in 1..Len(sends), o \in {"ok", "network-error"} :
          toasts = << >> /\ SendResponse(i, o)
    \/ \E n \in TrDestinations \cup {""} :
          toasts = << >> /\ nextId = 1 /\ SubmitTracerouteForm(n)
    \/ ToastExpires

SpecForms == InitLoad /\ [][NextForms]_vars

\* ------------------------------------------------------------------ claims

\* C1: once the status badge of a request shows Timeout, no later step (a
\* traceroute_result event or a poll response that was in flight) changes
\* it; it is never shown as Complete afterwards.
C1_TimeoutIsFinal ==
    [][\A id \in TrIds :
         trStatus[id] = "Timeout" => trStatus'[id] = "Timeout"]_vars

\* C2: a poll response with status complete, processed before the timeout
\* (fewer than maxAttempts attempts, no Timeout shown), sets the badge to
\* Complete and shows the source, the hops of the route in order and the
\* destination, or the destination marked direct when the route is empty.
C2_CompleteShowsPath ==
    [][\A id \in TrIds, r \in Routes :
         ( /\ attempts[id] < maxAttempts
           /\ trStatus[id] = "Pending"
           /\ PollResponse(id, "complete", r) )
         => /\ trStatus'[id] = "Complete"
            /\ LET shown == trHops'[id]
                   src == resolveNodeName(trReq[id].device)
                   dst == resolveNodeName(trReq[id].destination)
               IN  IF r = <<>>
                   THEN shown.kind = "direct" /\ shown.names = << dst >>
                   ELSE /\ shown.kind = "path"
                        /\ Len(shown.names) = Len(r) + 2
                        /\ shown.names[1] = src
                        /\ \A k \in 1..Len(r) :
                              shown.names[k + 1] = resolveNodeName(r[k])
                        /\ shown.names[Len(r) + 2] = dst]_vars

C2_Witness ==
    \E id \in TrIds :
        /\ trStatus[id] = "Complete"
        /\ attempts[id] < maxAttempts
        /\ ~intervalOn[id]
        /\ trHops[id] = [kind |-> "path",
                         names |-> << trReq[id].device, "Bravo", "!n3",
                                      "Alpha" >>]

\* C3: a request for which no result was applied (it shows Pending or
\* Timeout, never Complete) is shown as Timeout, with its timer cleared,
\* once maxAttempts polls were made and all of them were answered.
C3_TimesOutAtBound ==
    \A id \in TrIds :
        ( /\ attempts[id] >= maxAttempts
          /\ pollsInFlight[id] = 0
          /\ trStatus[id] \in {"Pending", "Timeout"} )
        => (trStatus[id] = "Timeout" /\ ~intervalOn[id])

\* C4: a step that changes anything of one request (a tick, or the request
\* completing, timing out or failing) leaves the attempt counter, the
\* timer, the polls in flight and the displayed status and hops of every
\* other request unchanged.
C4_IndependentClocks ==
    [][\A id \in TrIds :
         ( \/ attempts'[id] # attempts[id]
           \/ intervalOn'[id] # intervalOn[id]
           \/ pollsInFlight'[id] # pollsInFlight[id]
           \/ trStatus'[id] # trStatus[id]
           \/ trHops'[id] # trHops[id] )
         => \A other \in TrIds \ {id} :
               /\ attempts'[other] = attempts[other]
               /\ intervalOn'[other] = intervalOn[other]
               /\ pollsInFlight'[other] = pollsInFlight[other]
               /\ trStatus'[other] = trStatus[other]
               /\ trHops'[other] = trHops[other]]_vars

C4_Witness ==
    /\ trReq[1].device # trReq[2].device
    /\ trReq[1].destination = trReq[2].destination
    /\ trStatus[1] = "Timeout" /\ attempts[1] >= maxAttempts
    /\ trStatus[2] = "Pending" /\ intervalOn[2]
    /\ attempts[2] > 0 /\ attempts[2] < attempts[1]

\* C5: nodesData holds at most one entry per node id.
C5_UniqueNodeIds ==
    \A i, j \in 1..Len(nodesData) :
        i # j => nodesData[i].id # nodesData[j].id

C5_Witness ==
    /\ Len(devicesData) = 2
    /\ \E a \in 1..Len(devicesData[1].nodes), b \in 1..Len(devicesData[2].nodes) :
          /\ devicesData[1].nodes[a].id = devicesData[2].nodes[b].id
          /\ devicesData[1].nodes[a].lastHeard # devicesData[2].nodes[b].lastHeard
    /\ Len(nodesData) = 1

\* C6: after loadAll, the record kept for a node is the one of the latest
\* observation among the devices of the response: no device reports a later
\* lastHeard for that id, and the position is the one of that observation.
C6_LastWriterWins ==
    [][\A i \in 1..MaxLoads :
         LoadAllDone(i)
         => \A k \in 1..Len(nodesData') :
               \A d \in 1..Len(loads[i].devices) :
                  \A m \in 1..Len(loads[i].devices[d].nodes) :
                     LET kept == nodesData'[k]
                         obs == loads[i].devices[d].nodes[m]
                     IN  obs.id = kept.id
                         => /\ obs.lastHeard <= kept.lastHeard
                            /\ obs.lastHeard = kept.lastHeard
                               => /\ obs.latitude = kept.latitude
                                  /\ obs.longitude = kept.longitude]_vars

\* C7: the position a node holds in nodesData is never replaced by the
\* position of an older observation (positions are numbered by observation).
C7_PositionNeverRolledBack ==
    [][\A id \in NodeIds :
         LET i == FindNode(nodesData, id)
             j == FindNode(nodesData', id)
         IN  (i # 0 /\ j # 0)
             => nodesData'[j].latitude >= nodesData[i].latitude]_vars

\* C8: no message appears in messagesData more than once.
C8_NoDuplicateMessage ==
    \A i, j \in 1..Len(messagesData) :
        i # j => messagesData[i].id # messagesData[j].id

\* C9: a message whose new_message event was lost eventually appears in
\* messagesData, given that refreshes keep succeeding.
C9_RefreshRecovers ==
    \A k \in 1..MaxMsgs :
        (k \in lostMsgs)
        ~> (\E j \in 1..Len(messagesData) : messagesData[j].id = k)

C9_Witness ==
    \E k \in lostMsgs : \E j \in 1..Len(messagesData) : messagesData[j].id = k

\* C10: the links built are, in order, exactly the edges whose from and to
\* are both ids of the node list; each link points at nodes with those ids.
C10_LinksHaveEndpoints ==
    topoPc = "rendered" =>
        LET ids == { topoNodes[i].id : i \in 1..Len(topoNodes) }
            kept == SelectSeq(topoEdges,
                              LAMBDA e : e.from \in ids /\ e.to \in ids)
        IN  /\ Len(topoLinks) = Len(kept)
            /\ \A k \in 1..Len(topoLinks) :
                  /\ topoLinks[k].source \in 1..Len(topoNodes)
                  /\ topoLinks[k].target \in 1..Len(topoNodes)
                  /\ topoNodes[topoLinks[k].source].id = kept[k].from
                  /\ topoNodes[topoLinks[k].target].id = kept[k].to
                  /\ topoLinks[k].snr = kept[k].snr

C10_Witness ==
    /\ topoPc = "rendered"
    /\ Len(topoEdges) = 2 /\ Len(topoLinks) = 1
    /\ \E i \in 1..2 : \A n \in 1..Len(topoNodes) :
          topoNodes[n].id # topoEdges[i].to

\* C11: the rendered graph has at most one link per unordered pair of
\* nodes, and the connection count shown for a node is the number of
\* distinct pairs it is part of.
C11_OneLinkPerPair ==
    topoPc = "rendered" =>
        LET pairs == { {topoLinks[k].source, topoLinks[k].target} :
                          k \in 1..Len(topoLinks) }
        IN  /\ \A k, m \in 1..Len(topoLinks) :
                  k # m => {topoLinks[k].source, topoLinks[k].target}
                           # {topoLinks[m].source, topoLinks[m].target}
            /\ \A i \in 1..Len(topoNodes) :
                  ConnectionCount(topoLinks, i)
                  = Cardinality({ p \in pairs : i \in p })

\* C14: a request is never displayed as Pending while its polling is
\* stopped (the timer cleared after a failed poll fetch).
C14_NoPendingWithoutPolling ==
    \A id \in TrIds : ~(trStatus[id] = "Pending" /\ ~intervalOn[id])

\* C17: a poll response never applies the result of a request whose result
\* was already applied (the badge already shows Complete).
C17_ResultAppliedOnce ==
    [][\A id \in TrIds, r \in Routes :
         PollResponse(id, "complete", r) => trStatus[id] # "Complete"]_vars

C13_NewestFirst ==
    [][(OnMqttPacket /\ feedRows' # feedRows)
       => feedRows'[1].seq = pktClock']_vars

\* C15: the answer to an MQTT connect or disconnect command that is an
\* error response (a non-OK status or a body reporting no success) shows an
\* error toast, not the toast MQTT connecting or MQTT disconnected.
C15_MqttErrorShown ==
    [][\A i \in 1..Len(cmds), o \in {"refused", "http-error"} :
         MqttResponse(i, o)
         => /\ Len(toasts') = Len(toasts) + 1
            /\ toasts'[Len(toasts')].type = "error"]_vars

\* C16: the answer to a device disconnect or reconnect command that the
\* server confirms (HTTP OK, status connected) adds no error toast.
C16_NoErrorToastOnSuccess ==
    [][\A i \in 1..Len(cmds) :
         DeviceResponse(i, "ok")
         => \A k \in (Len(toasts) + 1)..Len(toasts') :
               toasts'[k].type # "error"]_vars

\* C18: for a packet that was not decoded and is encrypted, whatever its
\* portnum and payload, the text returned is the encrypted marker.
C18_EncryptedPayloadOmitted ==
    (fmtOut.kind # "none" /\ ~fmtPkt.decoded /\ fmtPkt.encrypted)
    => fmtOut = FmtText("encrypted", "")

\* C19: once the overview is rendered, total is the number of nodes, online
\* the number of nodes heard less than OnlineWindow seconds before now,
\* GPS-equipped the number of nodes with both latitude and longitude; both
\* are at most total; the mean SNR is shown exactly when some node has an
\* SNR and is then the mean over those nodes, to the nearest tenth.
C19_StatsOverview ==
    statsShown # NoStats =>
        LET ix == 1..Len(statsNodes)
            heard == { i \in ix : /\ statsNodes[i].lastHeard # Null
                                  /\ statsNodes[i].lastHeard # 0
                                  /\ StatsNow - statsNodes[i].lastHeard
                                     < OnlineWindow }
            gps == { i \in ix : /\ statsNodes[i].latitude # Null
                                /\ statsNodes[i].longitude # Null }
            has == { i \in ix : statsNodes[i].snr # Null }
            sum == SumSnr(statsNodes)
            t == statsShown.avgSnr.tenths
            err == t * Cardinality(has) - 10 * sum
        IN  /\ statsShown.total = Len(statsNodes)
            /\ statsShown.online = Cardinality(heard)
            /\ statsShown.withGps = Cardinality(gps)
            /\ statsShown.online <= statsShown.total
            /\ statsShown.withGps <= statsShown.total
            /\ statsShown.avgSnr.shown <=> has # {}
            /\ has # {} => (2 * err <= Cardinality(has)
                            /\ -2 * err <= Cardinality(has))

C19_Witness ==
    /\ statsShown # NoStats
    /\ statsShown.total = 2 /\ statsShown.online = 1 /\ statsShown.withGps = 1
    /\ statsShown.avgSnr = [shown |-> TRUE, tenths |-> 15]
    /\ \E i \in 1..Len(statsNodes) :
          statsNodes[i].lastHeard = StatsNow - OnlineWindow

\* C20: whenever the search box holds a non-empty query, the rows of the
\* node table are exactly the nodes of nodesData whose long name, short
\* name, id or hardware model contains the query, letter case ignored.
C20_RowsMatchQuery ==
    searchQuery # << >> =>
        LET q == toLowerCase(searchQuery)
            has(str) == includes(toLowerCase(Chars(str)), q)
        IN  { nodeRows[k] : k \in 1..Len(nodeRows) }
            = { nodesData[i].id : i \in
                  { j \in 1..Len(nodesData) :
                      \/ has(nodesData[j].longName)
                      \/ has(nodesData[j].shortName)
                      \/ has(nodesData[j].id)
                      \/ has(nodesData[j].hwModel) } }

\* C23: a poll response that reports a terminal status (complete,
\* timed-out or error) stops the polling of the request and leaves a
\* terminal state displayed, whatever the number of attempts made.
C23_TerminalStatusStopsPolling ==
    [][\A id \in TrIds, r \in Routes :
         \A s \in {"complete", "timed-out", "error"} :
            PollResponse(id, s, r)
            => /\ ~intervalOn'[id]
               /\ trStatus'[id] \in {"Complete", "Timeout"}]_vars

\* C24: no request is polled more than maxAttempts times.
C24_AtMostMaxAttemptsTicks ==
    \A id \in TrIds : attempts[id] <= maxAttempts

\* C25: with overlapping loadAll calls answered in the order asked, a
\* completing call never replaces the devices shown by an older snapshot
\* (the newest lastHeard of devicesData never goes back).
C25_NeverOlderSnapshot ==
    [][\A i \in 1..MaxLoads :
         LoadAllDone(i)
         => LET Newest(devs) ==
                    LET hs == UNION {{devs[k].nodes[m].lastHeard :
                                         m \in 1..Len(devs[k].nodes)} :
                                      k \in 1..Len(devs)}
                    IN  IF hs = {} THEN 0
                        ELSE CHOOSE h \in hs : \A g \in hs : g <= h
            IN  Newest(devicesData') >= Newest(devicesData)]_vars

\* C26: a loadAll call that ends while one of its fetches failed leaves
\* devicesData, nodesData and messagesData as they were and shows one error
\* toast.
C26_FailedLoadKeepsData ==
    [][\A i \in 1..Len(loads) :
         (/\ loads' = RemoveAt(loads, i)
          /\ ~(loads[i].devServed /\ loads[i].msgServed))
         => /\ devicesData' = devicesData
            /\ nodesData' = nodesData
            /\ messagesData' = messagesData
            /\ toasts' = Append(toasts,
                                Toast("Failed to load data", "error"))]_vars

\* a load failed after the page had data and the server has newer data
C26_Witness ==
    /\ \E k \in 1..Len(toasts) : toasts[k].text = "Failed to load data"
    /\ nodesData # <<>>
    /\ devicesData # DevicesSnapshot
    /\ loads = <<>>

\* C21: the applied theme is always dark or light and is the one a reload
\* would apply (the stored theme, dark when none is stored); each click on
\* the theme button switches the applied theme and stores the new one.
C21_ThemePersists ==
    /\ [](dataTheme \in {"dark", "light"} /\ dataTheme = ThemeOf(localStorage))
    /\ [][(dataTheme' # dataTheme \/ localStorage'.theme # localStorage.theme)
            => /\ dataTheme' # dataTheme
               /\ localStorage'.theme = dataTheme']_vars

\* dark was chosen again after light
C21_Witness ==
    /\ localStorage.theme = "dark"
    /\ dataTheme = "dark"

\* C22: a step raises a sound, a browser notification or a message toast
\* only when it handles a new_message event while notifications are enabled
\* and the message is neither sent nor from "local"; notificationsEnabled
\* always equals the stored flag.
C22_NotifyIncomingOnly ==
    /\ [](notificationsEnabled = (localStorage.notifications = "true"))
    /\ [][(\/ notices' # notices
            \/ /\ Len(toasts') > Len(toasts)
               /\ toasts'[Len(toasts')].type = "message")
           => /\ events # <<>>
              /\ Head(events).type = "new_message"
              /\ notificationsEnabled
              /\ ~Head(events).msg.sent
              /\ Head(events).msg.from # "local"]_vars

\* an incoming message was notified, a sent one and one from "local" were
\* displayed without notice, with notifications enabled after a prompt
C22_Witness ==
    /\ notificationsEnabled
    /\ localStorage.notifications = "true"
    /\ permission = "granted"
    /\ \E k \in 1..Len(messagesData) :
          /\ ~messagesData[k].sent /\ messagesData[k].from # "local"
          /\ << "notification", messagesData[k].id >> \in notices
    /\ \E k \in 1..Len(messagesData) :
          /\ messagesData[k].sent
          /\ << "sound", messagesData[k].id >> \notin notices

\* C27: an mqtt_packet event never adds a node to or removes one from
\* mqttNodesData or nodesData, changes nothing when its sender is not in
\* the cache, and leaves every field of the cached nodes that its payload
\* does not carry as it was.
C27_PushKeepsUncarriedFields ==
    [][\A portnum \in NodePorts, from \in PacketSenders,
         payload \in NodePayloads :
         OnNodePacket(portnum, from, payload)
         => /\ nodesData' = nodesData
            /\ Len(mqttNodesData') = Len(mqttNodesData)
            /\ FindNode(mqttNodesData, from) = 0
                  => mqttNodesData' = mqttNodesData
            /\ \A k \in 1..Len(mqttNodesData) :
                  LET old == mqttNodesData[k]
                      new == mqttNodesData'[k]
                  IN  /\ new.id = old.id
                      /\ payload.longName = "" => new.longName = old.longName
                      /\ payload.shortName = ""
                            => new.shortName = old.shortName
                      /\ payload.hwModelName = ""
                            => new.hwModel = old.hwModel
                      /\ payload.latitude = Null
                            => new.latitude = old.latitude
                      /\ payload.longitude = Null
                            => new.longitude = old.longitude]_vars

\* C28: the options of every device select are the connected devices of
\* the last /api/devices snapshot and its value is one of them or empty; a
\* refresh with exactly one connected device selects it everywhere; every
\* /api/send request has a device that was a connected option when it was
\* posted and a non-empty trimmed text; every /api/traceroute request has a
\* non-empty device and destination.
C28_CommandsForSelectedDevice ==
    /\ [](LET names(devices) ==
                  LET c == SelectSeq(devices, LAMBDA d : d.connected)
                  IN  [k \in 1..Len(c) |-> c[k].name]
          IN  /\ \A x \in Selects :
                    /\ selects[x].options = names(devicesData)
                    /\ selects[x].value \in
                          { selects[x].options[k] :
                              k \in 1..Len(selects[x].options) } \cup {""}
              /\ \A k \in 1..Len(sends) :
                    /\ sends[k].device # ""
                    /\ sends[k].text # << >>
                    /\ sends[k].text = trim(sends[k].text)
              /\ \A id \in TrIds :
                    id < nextId => /\ trReq[id].device # ""
                                   /\ trReq[id].destination # "")
    /\ [][LET names(devices) ==
                  LET c == SelectSeq(devices, LAMBDA d : d.connected)
                  IN  [k \in 1..Len(c) |-> c[k].name]
              shown == { names(devicesData)[k] :
                           k \in 1..Len(names(devicesData)) }
          IN  /\ \A i \in 1..Len(loads) :
                    (LoadAllDone(i) /\ Len(names(devicesData')) = 1)
                    => \A x \in Selects :
                          selects'[x].value = names(devicesData')[1]
              /\ Len(sends') > Len(sends)
                    => sends'[Len(sends')].device \in shown
              /\ nextId' # nextId
                    => trReq'[nextId].device \in shown]_vars

\* with one device disconnected in the snapshot and the other selected by
\* the refresh, a message and a traceroute were posted for it
C28_Witness ==
    /\ \E k \in 1..Len(devicesData) : ~devicesData[k].connected
    /\ \A x \in Selects : Len(selects[x].options) = 1
    /\ sends # << >>
    /\ sends[1].device = selects["send-device"].value
    /\ nextId > 1
    /\ trReq[1].device = selects["tr-device"].value

====
